---- MODULE Spec2Model ----
(***************************************************************************)
(* Model of timebeat_ssh_cli.py: the TimebeatCLI configuration store and   *)
(* system adapters, the TimebeatSSHServer command table and the per-client *)
(* read/dispatch/respond loop (handle_client).                             *)
(*                                                                         *)
(* Scheduling: every session is a coroutine on one asyncio event loop.     *)
(* The only suspension point of handle_client is the await on              *)
(* process.stdin.readline(); the command handlers contain no await of      *)
(* their own and call subprocess.run synchronously, so from the moment a   *)
(* line has been read until the next prompt has been written the session   *)
(* runs without any other session being scheduled.                         *)
(***************************************************************************)
EXTENDS Integers, Sequences, FiniteSets, TLC

Sessions == {"s1", "s2"}

(***************************************************************************)
(* Python str operations used by the program, on TLA+ strings.             *)
(***************************************************************************)
LowerAlpha == "abcdefghijklmnopqrstuvwxyz"
UpperAlpha == "ABCDEFGHIJKLMNOPQRSTUVWXYZ"
AsciiDigits == "0123456789"
\* characters for which str.isdigit() is true: the ASCII digits and other
\* Unicode digits such as SUPERSCRIPT TWO, which int() does not accept
DigitChars == AsciiDigits \o "²"

Chr(s, i) == SubSeq(s, i, i)

IndexIn(c, alphabet) ==
    IF \E i \in 1..Len(alphabet) : Chr(alphabet, i) = c
    THEN CHOOSE i \in 1..Len(alphabet) : Chr(alphabet, i) = c
    ELSE 0

\* sub in s
Contains(sub, s) ==
    \E i \in 1..(Len(s) - Len(sub) + 1) : SubSeq(s, i, i + Len(sub) - 1) = sub

LowerChar(c) ==
    LET i == IndexIn(c, UpperAlpha) IN IF i = 0 THEN c ELSE Chr(LowerAlpha, i)

UpperChar(c) ==
    LET i == IndexIn(c, LowerAlpha) IN IF i = 0 THEN c ELSE Chr(UpperAlpha, i)

RECURSIVE Lower(_)
Lower(s) == IF s = "" THEN "" ELSE LowerChar(Chr(s, 1)) \o Lower(Tail(s))

RECURSIVE Upper(_)
Upper(s) == IF s = "" THEN "" ELSE UpperChar(Chr(s, 1)) \o Upper(Tail(s))

IsSpace(c) == c \in {" ", "\t", "\n", "\r"}

RECURSIVE LStrip(_)
LStrip(s) == IF s # "" /\ IsSpace(Chr(s, 1)) THEN LStrip(Tail(s)) ELSE s

RECURSIVE RStrip(_)
RStrip(s) ==
    IF s # "" /\ IsSpace(Chr(s, Len(s)))
    THEN RStrip(SubSeq(s, 1, Len(s) - 1))
    ELSE s

Strip(s) == RStrip(LStrip(s))

\* length of the leading run of non-space characters of s
RECURSIVE WordLen(_)
WordLen(s) ==
    IF s = "" \/ IsSpace(Chr(s, 1)) THEN 0 ELSE 1 + WordLen(Tail(s))

\* s.split(): the whitespace-separated words of s
RECURSIVE Split(_)
Split(s) ==
    LET t == LStrip(s) IN
    IF t = "" THEN << >>
    ELSE LET n == WordLen(t) IN
         << SubSeq(t, 1, n) >> \o Split(SubSeq(t, n + 1, Len(t)))

\* s.isdigit()
IsDigit(s) ==
    s # "" /\ \A i \in 1..Len(s) : IndexIn(Chr(s, i), DigitChars) # 0

\* int(s) succeeds (s has passed isdigit, so no sign or blanks are left)
IntOk(s) ==
    s # "" /\ \A i \in 1..Len(s) : IndexIn(Chr(s, i), AsciiDigits) # 0

RECURSIVE ToInt(_)
ToInt(s) ==
    IF s = "" THEN 0
    ELSE 10 * ToInt(SubSeq(s, 1, Len(s) - 1))
         + (IndexIn(Chr(s, Len(s)), AsciiDigits) - 1)

\* str(n) for n >= 0
RECURSIVE ToStr(_)
ToStr(n) ==
    IF n < 10 THEN Chr(AsciiDigits, n + 1)
    ELSE ToStr(n \div 10) \o Chr(AsciiDigits, (n % 10) + 1)

\* "\n".join(lines)
RECURSIVE Join(_)
Join(ls) ==
    IF ls = << >> THEN ""
    ELSE IF Len(ls) = 1 THEN ls[1]
    ELSE ls[1] \o "\n" \o Join(Tail(ls))

(***************************************************************************)
(* Configuration documents: the value yaml.safe_load returns.              *)
(***************************************************************************)
None == [none |-> TRUE]
EmptyMap == << >>

\* dict.get(k, d)
Get(m, k, d) == IF k \in DOMAIN m THEN m[k] ELSE d

\* m[k] = v
SetKey(m, k, v) == [x \in (DOMAIN m) \cup {k} |-> IF x = k THEN v ELSE m[x]]

\* truth value of self.config in `if not self.config` / `if self.cli.config`
Truthy(c) == c # None /\ DOMAIN c # {}

MkDoc(prim, sec) ==
    [timebeat |-> [clock_sync |-> [primary_clocks |-> prim,
                                   secondary_clocks |-> sec]]]

ClockSync(c) == Get(Get(c, "timebeat", EmptyMap), "clock_sync", EmptyMap)

ClockList(c, clock_list_key) == Get(ClockSync(c), clock_list_key, << >>)

(***************************************************************************)
(* The configuration file.  Its content is kept as what yaml.safe_load     *)
(* makes of it: a document, nothing at all (an empty file loads as None),  *)
(* or a text the parser rejects.                                           *)
(***************************************************************************)
Yaml(d) == [kind |-> "yaml", doc |-> d]
EmptyFile == [kind |-> "empty", doc |-> None]
Garbage == [kind |-> "garbage", doc |-> None]

DocA ==
    MkDoc(<< [protocol |-> "ptp", disable |-> TRUE, interface |-> "eth0"],
             [protocol |-> "PTP", device |-> "/dev/ptp1"] >>,
          << [protocol |-> "NTP", disable |-> FALSE, ip |-> "10.0.0.1"] >>)

DocB == MkDoc(<< [protocol |-> "ptp", interface |-> "eth1"] >>, << >>)

InitFiles == {Yaml(DocA), Yaml(EmptyMap), EmptyFile, Garbage}
EditFiles == {Yaml(DocA), Yaml(DocB), EmptyFile, Garbage}

\* outcomes of open(path, 'r') + yaml.safe_load
LoadOutcomes == {"ok", "io_error"}
\* outcomes of open(path, 'w') + yaml.dump: the open fails, or the open has
\* truncated the file and the write (or the flush on close) fails
SaveOutcomes == {"ok", "open_error", "write_error"}
\* outcomes of subprocess.run: exit status 0, non-zero, or the call raises
RunOutcomes == {"ok", "fail", "raise"}

\* a document once loaded is kept
LoadConfigCached(f, cfg, outcome) ==
    IF cfg # None THEN << TRUE, cfg >>
    ELSE IF outcome = "ok" /\ f.kind = "yaml" THEN << TRUE, f.doc >>
    ELSE IF outcome = "ok" /\ f.kind = "empty" THEN << TRUE, None >>
    ELSE << FALSE, cfg >>

\* load_config: the pair <<return value, new self.config>>
LoadConfig(f, cfg, outcome) ==
    IF outcome = "ok" /\ f.kind = "yaml" THEN << TRUE, f.doc >>
    ELSE IF outcome = "ok" /\ f.kind = "empty" THEN << TRUE, None >>
    ELSE << FALSE, cfg >>

\* save_config: the pair <<return value, new file>>
SaveConfig(f, cfg, outcome) ==
    IF outcome = "ok" THEN << TRUE, Yaml(cfg) >>
    ELSE IF outcome = "open_error" THEN << FALSE, f >>
    ELSE << FALSE, EmptyFile >>

(***************************************************************************)
(* TimebeatCLI.list_protocols                                              *)
(***************************************************************************)
NotLoadedText == "Configuration not loaded"

StatusWord(clock) == IF Get(clock, "disable", FALSE) THEN "DISABLED" ELSE "ENABLED"

Endpoint(clock) ==
    Get(clock, "interface", Get(clock, "ip", Get(clock, "device", "N/A")))

ProtocolLine(clock) ==
    "  " \o Upper(Get(clock, "protocol", "unknown")) \o ": "
         \o StatusWord(clock) \o " (" \o Endpoint(clock) \o ")"

ProtocolLines(clocks) == [i \in 1..Len(clocks) |-> ProtocolLine(clocks[i])]

ListProtocols(c) ==
    IF ~Truthy(c) THEN NotLoadedText
    ELSE Join(<< "=== PRIMARY CLOCKS ===" >>
              \o ProtocolLines(ClockList(c, "primary_clocks"))
              \o << "\n=== SECONDARY CLOCKS ===" >>
              \o ProtocolLines(ClockList(c, "secondary_clocks")))

(***************************************************************************)
(* yaml.dump(config, default_flow_style=False) as show_config displays it: *)
(* block style, mapping keys in sorted order.                              *)
(***************************************************************************)
BoolText(b) == IF b THEN "true" ELSE "false"

ClockKeys == << "device", "disable", "interface", "ip", "protocol" >>

RECURSIVE DumpClockKeys(_, _, _)
DumpClockKeys(clock, k, first) ==
    IF k > Len(ClockKeys) THEN ""
    ELSE IF ClockKeys[k] \notin DOMAIN clock
         THEN DumpClockKeys(clock, k + 1, first)
    ELSE (IF first THEN "    - " ELSE "      ")
         \o ClockKeys[k] \o ": "
         \o (IF ClockKeys[k] = "disable" THEN BoolText(clock[ClockKeys[k]])
             ELSE clock[ClockKeys[k]])
         \o "\n" \o DumpClockKeys(clock, k + 1, FALSE)

RECURSIVE DumpClocks(_)
DumpClocks(clocks) ==
    IF clocks = << >> THEN ""
    ELSE DumpClockKeys(Head(clocks), 1, TRUE) \o DumpClocks(Tail(clocks))

DumpList(cs, key) ==
    IF key \notin DOMAIN cs THEN ""
    ELSE IF cs[key] = << >> THEN "    " \o key \o ": []\n"
    ELSE "    " \o key \o ":\n" \o DumpClocks(cs[key])

DumpText(c) ==
    IF c = EmptyMap THEN "{}\n"
    ELSE "timebeat:\n  clock_sync:\n"
         \o DumpList(ClockSync(c), "primary_clocks")
         \o DumpList(ClockSync(c), "secondary_clocks")

(***************************************************************************)
(* TimebeatCLI.toggle_protocol, in the steps of its body.                  *)
(***************************************************************************)
\* the for loop with its if: index of the first clock whose protocol
\* matches without regard to case, 0 when the loop runs to its end
FindFirst(clocks, protocol) ==
    LET hits == {i \in 1..Len(clocks) :
                    Lower(Get(clocks[i], "protocol", "")) = Lower(protocol)}
    IN IF hits = {} THEN 0 ELSE CHOOSE i \in hits : \A j \in hits : i <= j

ClockListKey(clock_type) == clock_type \o "_clocks"

\* clock['disable'] = not current_status, on the clock the loop stopped at
FlipAt(c, key, i, current_status) ==
    IF i \in 1..Len(ClockList(c, key))
    THEN [c EXCEPT !["timebeat"]["clock_sync"][key][i] =
                        SetKey(@, "disable", ~current_status)]
    ELSE c

\* the two words the wrong way round
NewStatusSwapped(current_status) ==
    IF ~current_status THEN "ENABLED" ELSE "DISABLED"

NewStatus(current_status) == IF ~current_status THEN "DISABLED" ELSE "ENABLED"

ToggledText(protocol, current_status, clock_type) ==
    "Protocol " \o Upper(protocol) \o " " \o NewStatus(current_status)
        \o " in " \o clock_type \o " clocks"

SaveFailedText == "Failed to save configuration"

NotFoundText(protocol, clock_type) ==
    "Protocol " \o protocol \o " not found in " \o clock_type \o " clocks"

(***************************************************************************)
(* TimebeatCLI system adapters: the text each returns for an outcome of    *)
(* its subprocess.run call.                                                *)
(***************************************************************************)
StdoutOf(argv) == "[stdout of " \o argv \o "]"
StderrOf(argv) == "[stderr of " \o argv \o "]"
RaisedBy(argv) == "[Errno 2] No such file or directory: " \o argv

\* result.stdout: what the tool printed; a tool that fails prints its
\* complaint on stderr
RunStdout(argv, outcome) == IF outcome = "ok" THEN StdoutOf(argv) ELSE ""

StatusArgv == "systemctl status timebeat"
StartArgv == "systemctl start timebeat"
StopArgv == "systemctl stop timebeat"
RestartArgv == "systemctl restart timebeat"
ChronyArgv == "chrony sources"
TimedatectlArgv == "timedatectl status"
LogsArgv(lines) == "journalctl -u timebeat -n " \o ToStr(lines)

GetStatus(outcome) ==
    IF outcome = "raise" THEN "Error getting status: " \o RaisedBy(StatusArgv)
    ELSE RunStdout(StatusArgv, outcome)

StartService(outcome) ==
    IF outcome = "raise" THEN "Error starting service: " \o RaisedBy(StartArgv)
    ELSE IF outcome = "ok" THEN "Timebeat service started successfully"
    ELSE "Failed to start timebeat: " \o StderrOf(StartArgv)

StopService(outcome) ==
    IF outcome = "raise" THEN "Error stopping service: " \o RaisedBy(StopArgv)
    ELSE IF outcome = "ok" THEN "Timebeat service stopped successfully"
    ELSE "Failed to stop timebeat: " \o StderrOf(StopArgv)

RestartService(outcome) ==
    IF outcome = "raise"
    THEN "Error restarting service: " \o RaisedBy(RestartArgv)
    ELSE IF outcome = "ok" THEN "Timebeat service restarted successfully"
    ELSE "Failed to restart timebeat: " \o StderrOf(RestartArgv)

GetLogs(lines, outcome) ==
    IF outcome = "raise"
    THEN "Error getting logs: " \o RaisedBy(LogsArgv(lines))
    ELSE RunStdout(LogsArgv(lines), outcome)

ClockStatusError(argv) == "Error getting clock sync status: " \o RaisedBy(argv)

(***************************************************************************)
(* TimebeatSSHServer: the command table and the texts of handle_client.    *)
(***************************************************************************)
CommandNames ==
    {"help", "status", "start", "stop", "restart", "logs", "protocols",
     "enable", "disable", "clock", "config", "reload", "exit", "quit"}

Welcome ==
    << "Welcome to Timebeat SSH CLI Interface\n",
       "Type 'help' for available commands\n\n" >>

PromptText == "timebeat> "

\* the first of the two writes only
UnknownTextNoHint(command) == << "Unknown command: " \o command \o "\n" >>

UnknownText(command) ==
    << "Unknown command: " \o command \o "\n",
       "Type 'help' for available commands\n\n" >>

HelpText ==
    "\nAvailable Commands:\n------------------\n"
    \o "status          - Show timebeat service status\n"
    \o "start           - Start timebeat service\n"
    \o "stop            - Stop timebeat service  \n"
    \o "restart         - Restart timebeat service\n"
    \o "logs [lines]    - Show timebeat logs (default: 50 lines)\n"
    \o "protocols       - List all configured protocols\n"
    \o "enable <proto>  - Enable a protocol (ptp, ntp, pps, nmea, phc)\n"
    \o "disable <proto> - Disable a protocol\n"
    \o "clock           - Show clock synchronization status\n"
    \o "config          - Show current configuration\n"
    \o "reload          - Reload configuration from file\n"
    \o "help            - Show this help message\n"
    \o "exit/quit       - Exit the session\n"
    \o "\nExamples:\n---------\n"
    \o "timebeat> status\ntimebeat> logs 100\ntimebeat> enable ptp\n"
    \o "timebeat> disable nmea\ntimebeat> protocols\n        "

Farewell == "Goodbye!"
DefaultLogLines == 50

UsageText(command) == "Usage: " \o command \o " <protocol>"

\* the word enable_protocol / disable_protocol looks for in the toggle result
Keyword(command) == IF command = "enable" THEN "ENABLED" ELSE "DISABLED"

\* `if "ENABLED" in result` / `if "DISABLED" in result`
WantsRestart(command, result) == Contains(Keyword(command), result)

ReloadedText == "Configuration reloaded successfully"
ReloadFailedText == "Failed to reload configuration"
IntErrorText(a) == "invalid literal for int() with base 10: '" \o a \o "'"
\* the fault is not put into the text
ErrorExecutingBare(e) == "Error executing command\n\n"
ErrorExecuting(e) == "Error executing command: " \o e \o "\n\n"

\* the lines a client may send (without the line terminator)
Lines ==
    {"   ", "exit", "QUIT", "Bogus arg", "Help", "protocols", "config",
     "reload", "status", "start", "stop", "restart", "clock",
     "logs", "logs 7", "logs abc", "logs -3", "logs ²",
     "enable", "Disable", "enable ptp", " Disable  PTP ",
     "disable ntp secondary",
     "enable gps", "enable ENABLED", "disable ptp DISABLED"}

(***************************************************************************)
(* State.                                                                  *)
(***************************************************************************)
VARIABLES
    config,   \* TimebeatCLI.config, shared by all sessions
    file,     \* the file at config_path
    pc,       \* where each session's handle_client coroutine stands
    line,     \* line: what readline returned to the session
    cmd,      \* command: parts[0].lower() of the line being served
    args,     \* args: parts[1:]
    res,      \* result / clock_info of the handler being run
    loc,      \* toggle_protocol's loop position and current_status
    call,     \* argv of the subprocess.run the session is blocked in
    trace,    \* what the handler has done so far, in order
    out,      \* what the session wrote since it last took up a line
    snap,     \* config and file when the line was taken up
    why,      \* why the session's loop ended
    unsaved   \* the clocks whose flag in memory was flipped by a toggle that
              \* answered with the save failure, and not written or
              \* reloaded since: pairs << clock list key, index >>

vars == << config, file, pc, line, cmd, args, res, loc, call, trace, out, snap,
           why, unsaved >>

NoLoc == [i |-> 0, cur |-> FALSE, key |-> "", lines |-> 0]
NoSnap == [cfg |-> None, file |-> EmptyFile]

\* the session is suspended in readline (or not running at all), so the
\* event loop can run another session
Suspended(s) == pc[s] \in {"new", "read", "closed"}

\* every session on a thread of its own: nothing waits for anything
LoopIdleThreaded == TRUE

\* the event loop is free to resume a session: no coroutine is running
LoopIdle == \A s \in Sessions : Suspended(s)

\* TimebeatCLI.__init__ loads the file; the server accepts clients later
Init ==
    /\ file \in InitFiles
    /\ config = LoadConfig(file, None, "ok")[2]
    /\ pc = [s \in Sessions |-> "new"]
    /\ line = [s \in Sessions |-> ""]
    /\ cmd = [s \in Sessions |-> ""]
    /\ args = [s \in Sessions |-> << >>]
    /\ res = [s \in Sessions |-> ""]
    /\ loc = [s \in Sessions |-> NoLoc]
    /\ call = [s \in Sessions |-> ""]
    /\ trace = [s \in Sessions |-> << >>]
    /\ out = [s \in Sessions |-> << >>]
    /\ snap = NoSnap
    /\ why = [s \in Sessions |-> ""]
    /\ unsaved = {}

(***************************************************************************)
(* handle_client: the loop of one session.                                 *)
(***************************************************************************)
\* the two welcome lines, before the loop is entered
Accept(s) ==
    /\ pc[s] = "new"
    /\ LoopIdle
    /\ pc' = [pc EXCEPT ![s] = "top"]
    /\ out' = [out EXCEPT ![s] = Welcome]
    /\ UNCHANGED << line, config, file, cmd, args, res, loc, call, trace,
                    snap, why, unsaved >>

\* top of the loop: write the prompt and suspend in readline; the locals of
\* the previous round are dead from here on
Prompt(s) ==
    /\ pc[s] = "top"
    /\ pc' = [pc EXCEPT ![s] = "read"]
    /\ out' = [out EXCEPT ![s] = << PromptText >>]
    /\ line' = [line EXCEPT ![s] = ""]
    /\ cmd' = [cmd EXCEPT ![s] = ""]
    /\ args' = [args EXCEPT ![s] = << >>]
    /\ res' = [res EXCEPT ![s] = ""]
    /\ loc' = [loc EXCEPT ![s] = NoLoc]
    /\ call' = [call EXCEPT ![s] = ""]
    /\ trace' = [trace EXCEPT ![s] = << >>]
    /\ snap' = NoSnap
    /\ UNCHANGED << config, file, why, unsaved >>

\* readline returns '' : break, then process.exit(0)
EndOfInput(s) ==
    /\ pc[s] = "read"
    /\ LoopIdle
    /\ pc' = [pc EXCEPT ![s] = "closed"]
    /\ why' = [why EXCEPT ![s] = "eof"]
    /\ out' = [out EXCEPT ![s] = << >>]
    /\ UNCHANGED << line, config, file, cmd, args, res, loc, call, trace,
                    snap, unsaved >>

\* readline raises asyncssh.BreakReceived: break, then process.exit(0)
BreakReceived(s) ==
    /\ pc[s] = "read"
    /\ LoopIdle
    /\ pc' = [pc EXCEPT ![s] = "closed"]
    /\ why' = [why EXCEPT ![s] = "break"]
    /\ out' = [out EXCEPT ![s] = << >>]
    /\ UNCHANGED << line, config, file, cmd, args, res, loc, call, trace,
                    snap, unsaved >>

\* readline raises any other Exception (a signal or a terminal size change
\* on the channel, a lost connection): logged, break, then process.exit(0)
ReadlineFault(s) ==
    /\ pc[s] = "read"
    /\ LoopIdle
    /\ pc' = [pc EXCEPT ![s] = "closed"]
    /\ why' = [why EXCEPT ![s] = "fault"]
    /\ out' = [out EXCEPT ![s] = << >>]
    /\ UNCHANGED << line, config, file, cmd, args, res, loc, call, trace,
                    snap, unsaved >>

\* a blank line is taken for a command without a name
ReadBlankAnswers(s, l) ==
    /\ pc[s] = "read"
    /\ LoopIdle
    /\ line' = [line EXCEPT ![s] = l]
    /\ Strip(l) = ""
    /\ pc' = [pc EXCEPT ![s] = "top"]
    /\ out' = [out EXCEPT ![s] = UnknownText("")]
    /\ snap' = [cfg |-> config, file |-> file]
    /\ UNCHANGED << config, file, cmd, args, res, loc, call, trace, why,
                    unsaved >>

\* readline returns a line that is blank after strip(): continue
ReadBlank(s, l) ==
    /\ pc[s] = "read"
    /\ LoopIdle
    /\ line' = [line EXCEPT ![s] = l]
    /\ Strip(l) = ""
    /\ pc' = [pc EXCEPT ![s] = "top"]
    /\ out' = [out EXCEPT ![s] = << >>]
    /\ snap' = [cfg |-> config, file |-> file]
    /\ UNCHANGED << config, file, cmd, args, res, loc, call, trace, why,
                    unsaved >>

\* readline returns a line whose first word is not in self.commands
ReadUnknown(s, l) ==
    /\ pc[s] = "read"
    /\ LoopIdle
    /\ line' = [line EXCEPT ![s] = l]
    /\ Strip(l) # ""
    /\ LET parts == Split(Strip(l))
           command == Lower(parts[1])
       IN /\ command \notin CommandNames
          /\ cmd' = [cmd EXCEPT ![s] = command]
          /\ args' = [args EXCEPT ![s] = Tail(parts)]
          /\ out' = [out EXCEPT ![s] = UnknownText(command)]
    /\ pc' = [pc EXCEPT ![s] = "top"]
    /\ snap' = [cfg |-> config, file |-> file]
    /\ UNCHANGED << config, file, res, loc, call, trace, why, unsaved >>

\* readline returns a line whose first word is in self.commands: the
\* handler is called
Dispatch(s, l) ==
    /\ pc[s] = "read"
    /\ LoopIdle
    /\ line' = [line EXCEPT ![s] = l]
    /\ Strip(l) # ""
    /\ LET parts == Split(Strip(l))
           command == Lower(parts[1])
       IN /\ command \in CommandNames
          /\ cmd' = [cmd EXCEPT ![s] = command]
          /\ args' = [args EXCEPT ![s] = Tail(parts)]
    /\ pc' = [pc EXCEPT ![s] = "exec"]
    /\ out' = [out EXCEPT ![s] = << >>]
    /\ snap' = [cfg |-> config, file |-> file]
    /\ UNCHANGED << config, file, res, loc, call, trace, why, unsaved >>

\* a fault of the handler is reported and then ends the loop
RespondBreakOnFault(s) ==
    /\ pc[s] \in {"respond", "raised"}
    /\ out' = [out EXCEPT ![s] =
                  IF pc[s] = "respond" THEN << res[s] \o "\n\n" >>
                  ELSE << ErrorExecuting(res[s]) >>]
    /\ pc' = [pc EXCEPT ![s] = IF pc[s] = "raised" THEN "closed" ELSE "top"]
    /\ UNCHANGED << line, config, file, cmd, args, res, loc, call, trace,
                    snap, why, unsaved >>

\* the handler has returned (or raised): write the response, go to the top
Respond(s) ==
    /\ pc[s] \in {"respond", "raised"}
    /\ out' = [out EXCEPT ![s] =
                  IF pc[s] = "respond" THEN << res[s] \o "\n\n" >>
                  ELSE << ErrorExecuting(res[s]) >>]
    /\ pc' = [pc EXCEPT ![s] = "top"]
    /\ UNCHANGED << line, config, file, cmd, args, res, loc, call, trace,
                    snap, why, unsaved >>

(***************************************************************************)
(* The handlers.                                                           *)
(***************************************************************************)
Return(s, result) ==
    /\ res' = [res EXCEPT ![s] = result]
    /\ pc' = [pc EXCEPT ![s] = "respond"]

\* subprocess.run(argv) is entered; it returns in ToolReturn
Run(s, argv) ==
    /\ call' = [call EXCEPT ![s] = argv]
    /\ trace' = [trace EXCEPT ![s] = Append(@, "run " \o argv)]
    /\ pc' = [pc EXCEPT ![s] = "tool"]

ShowHelp(s) ==
    /\ pc[s] = "exec" /\ cmd[s] = "help"
    /\ Return(s, HelpText)
    /\ UNCHANGED << line, config, file, cmd, args, loc, call, trace, out,
                    snap, why, unsaved >>

ExitSession(s) ==
    /\ pc[s] = "exec" /\ cmd[s] \in {"exit", "quit"}
    /\ Return(s, Farewell)
    /\ UNCHANGED << line, config, file, cmd, args, loc, call, trace, out,
                    snap, why, unsaved >>

ListProtocolsCmd(s) ==
    /\ pc[s] = "exec" /\ cmd[s] = "protocols"
    /\ Return(s, ListProtocols(config))
    /\ UNCHANGED << line, config, file, cmd, args, loc, call, trace, out,
                    snap, why, unsaved >>

ShowConfigText(c) == IF Truthy(c) THEN DumpText(c) ELSE NotLoadedText

ShowConfig(s) ==
    /\ pc[s] = "exec" /\ cmd[s] = "config"
    /\ Return(s, ShowConfigText(config))
    /\ UNCHANGED << line, config, file, cmd, args, loc, call, trace, out,
                    snap, why, unsaved >>

\* a load that fails drops the document
ReloadConfigDrops(s, outcome) ==
    /\ pc[s] = "exec" /\ cmd[s] = "reload"
    /\ LET r == LoadConfig(file, config, outcome)
       IN /\ config' = (IF r[1] THEN r[2] ELSE None)
          /\ Return(s, IF r[1] THEN ReloadedText ELSE ReloadFailedText)
    /\ trace' = [trace EXCEPT ![s] = Append(@, "load")]
    /\ unsaved' = IF LoadConfig(file, config, outcome)[1] THEN {} ELSE unsaved
    /\ UNCHANGED << line, file, cmd, args, loc, call, out, snap, why >>

ReloadConfig(s, outcome) ==
    /\ pc[s] = "exec" /\ cmd[s] = "reload"
    /\ LET r == LoadConfig(file, config, outcome)
       IN /\ config' = r[2]
          /\ Return(s, IF r[1] THEN ReloadedText ELSE ReloadFailedText)
    /\ trace' = [trace EXCEPT ![s] = Append(@, "load")]
    /\ unsaved' = IF LoadConfig(file, config, outcome)[1] THEN {} ELSE unsaved
    /\ UNCHANGED << line, file, cmd, args, loc, call, out, snap, why >>

\* show_logs up to the call of subprocess.run in get_logs
ShowLogs(s) ==
    /\ pc[s] = "exec" /\ cmd[s] = "logs"
    /\ IF args[s] # << >> /\ IsDigit(args[s][1]) /\ ~IntOk(args[s][1])
       THEN /\ res' = [res EXCEPT ![s] = IntErrorText(args[s][1])]
            /\ pc' = [pc EXCEPT ![s] = "raised"]
            /\ UNCHANGED << loc, call, trace >>
       ELSE LET lines == IF args[s] # << >> /\ IsDigit(args[s][1])
                         THEN ToInt(args[s][1]) ELSE DefaultLogLines
            IN /\ loc' = [loc EXCEPT ![s].lines = lines]
               /\ Run(s, LogsArgv(lines))
               /\ UNCHANGED res
    /\ UNCHANGED << line, config, file, cmd, args, out, snap, why, unsaved >>

FirstArgv(command) ==
    CASE command = "status" -> StatusArgv
      [] command = "start" -> StartArgv
      [] command = "stop" -> StopArgv
      [] command = "restart" -> RestartArgv
      [] command = "clock" -> ChronyArgv

\* show_status, start_service, stop_service, restart_service, clock_status
\* up to their (first) call of subprocess.run
StartTool(s) ==
    /\ pc[s] = "exec"
    /\ cmd[s] \in {"status", "start", "stop", "restart", "clock"}
    /\ Run(s, FirstArgv(cmd[s]))
    /\ UNCHANGED << line, config, file, cmd, args, res, loc, out, snap, why,
                    unsaved >>

\* enable_protocol / disable_protocol after toggle_protocol has returned
\* result: restart the service if the result has the keyword in it
AfterToggle(s, result) ==
    /\ res' = [res EXCEPT ![s] = result]
    /\ IF WantsRestart(cmd[s], result)
       THEN Run(s, RestartArgv)
       ELSE /\ pc' = [pc EXCEPT ![s] = "respond"]
            /\ UNCHANGED << call, trace >>

\* the document is written out before the arguments are looked at
ToggleUsageSaves(s) ==
    /\ pc[s] = "exec" /\ cmd[s] \in {"enable", "disable"}
    /\ args[s] = << >>
    /\ Return(s, UsageText(cmd[s]))
    /\ file' = SaveConfig(file, config, "ok")[2]
    /\ trace' = [trace EXCEPT ![s] = Append(@, "save ok")]
    /\ UNCHANGED << line, config, cmd, args, loc, call, out, snap, why,
                    unsaved >>

\* enable_protocol / disable_protocol without an argument
ToggleUsage(s) ==
    /\ pc[s] = "exec" /\ cmd[s] \in {"enable", "disable"}
    /\ args[s] = << >>
    /\ Return(s, UsageText(cmd[s]))
    /\ UNCHANGED << line, config, file, cmd, args, loc, call, trace, out,
                    snap, why, unsaved >>

ClockType(a) == IF Len(a) > 1 THEN a[2] ELSE "primary"

\* toggle_protocol up to the end of its for loop: no configuration, no
\* matching clock, or a matching clock whose flag is read
ToggleFind(s) ==
    /\ pc[s] = "exec" /\ cmd[s] \in {"enable", "disable"}
    /\ args[s] # << >>
    /\ LET protocol == args[s][1]
           clock_type == ClockType(args[s])
           key == ClockListKey(clock_type)
           clocks == ClockList(config, key)
           i == FindFirst(clocks, protocol)
       IN IF ~Truthy(config)
          THEN AfterToggle(s, NotLoadedText) /\ UNCHANGED loc
          ELSE IF i = 0
          THEN AfterToggle(s, NotFoundText(protocol, clock_type))
               /\ UNCHANGED loc
          ELSE /\ loc' = [loc EXCEPT ![s] =
                            [i |-> i, cur |-> Get(clocks[i], "disable", FALSE),
                             key |-> key, lines |-> 0]]
               /\ pc' = [pc EXCEPT ![s] = "save"]
               /\ UNCHANGED << res, call, trace >>
    /\ UNCHANGED << line, config, file, cmd, args, out, snap, why, unsaved >>

\* toggle_protocol from the assignment to clock['disable'] on: the flag is
\* set to the opposite of what was read, and the document is saved
ToggleSave(s, outcome) ==
    /\ pc[s] = "save"
    /\ LET flipped == FlipAt(config, loc[s].key, loc[s].i, loc[s].cur)
           saved == SaveConfig(file, flipped, outcome)
       IN /\ config' = flipped
          /\ file' = saved[2]
          /\ unsaved' = IF saved[1] THEN {}
                        ELSE IF << loc[s].key, loc[s].i >> \in unsaved
                        THEN unsaved \ {<< loc[s].key, loc[s].i >>}
                        ELSE unsaved \cup {<< loc[s].key, loc[s].i >>}
          /\ IF saved[1]
             THEN /\ res' = [res EXCEPT ![s] =
                               ToggledText(args[s][1], loc[s].cur,
                                           ClockType(args[s]))]
                  /\ IF WantsRestart(cmd[s], res'[s])
                     THEN /\ call' = [call EXCEPT ![s] = RestartArgv]
                          /\ trace' = [trace EXCEPT ![s] =
                                @ \o << "flip", "save " \o outcome,
                                        "run " \o RestartArgv >>]
                          /\ pc' = [pc EXCEPT ![s] = "tool"]
                     ELSE /\ trace' = [trace EXCEPT ![s] =
                                @ \o << "flip", "save " \o outcome >>]
                          /\ pc' = [pc EXCEPT ![s] = "respond"]
                          /\ UNCHANGED call
             ELSE /\ res' = [res EXCEPT ![s] = SaveFailedText]
                  /\ IF WantsRestart(cmd[s], SaveFailedText)
                     THEN /\ call' = [call EXCEPT ![s] = RestartArgv]
                          /\ trace' = [trace EXCEPT ![s] =
                                @ \o << "flip", "save " \o outcome,
                                        "run " \o RestartArgv >>]
                          /\ pc' = [pc EXCEPT ![s] = "tool"]
                     ELSE /\ trace' = [trace EXCEPT ![s] =
                                @ \o << "flip", "save " \o outcome >>]
                          /\ pc' = [pc EXCEPT ![s] = "respond"]
                          /\ UNCHANGED call
    /\ UNCHANGED << line, cmd, args, loc, out, snap, why >>

\* subprocess.run returns or raises, and the handler runs on to its return
\* or to its next subprocess.run
ToolReturn(s, outcome) ==
    /\ pc[s] = "tool"
    /\ CASE cmd[s] = "status" ->
              Return(s, GetStatus(outcome)) /\ UNCHANGED << call, trace >>
         [] cmd[s] = "start" ->
              Return(s, StartService(outcome)) /\ UNCHANGED << call, trace >>
         [] cmd[s] = "stop" ->
              Return(s, StopService(outcome)) /\ UNCHANGED << call, trace >>
         [] cmd[s] = "restart" ->
              Return(s, RestartService(outcome)) /\ UNCHANGED << call, trace >>
         [] cmd[s] = "logs" ->
              Return(s, GetLogs(loc[s].lines, outcome))
              /\ UNCHANGED << call, trace >>
         [] cmd[s] \in {"enable", "disable"} ->
              Return(s, res[s] \o "\n" \o RestartService(outcome))
              /\ UNCHANGED << call, trace >>
         [] cmd[s] = "clock" /\ call[s] = ChronyArgv ->
              IF outcome = "raise"
              THEN Return(s, ClockStatusError(ChronyArgv))
                   /\ UNCHANGED << call, trace >>
              ELSE /\ res' = [res EXCEPT ![s] =
                                RunStdout(ChronyArgv, outcome) \o "\n"]
                   /\ Run(s, TimedatectlArgv)
         [] cmd[s] = "clock" /\ call[s] = TimedatectlArgv ->
              IF outcome = "raise"
              THEN Return(s, ClockStatusError(TimedatectlArgv))
                   /\ UNCHANGED << call, trace >>
              ELSE Return(s, res[s] \o RunStdout(TimedatectlArgv, outcome))
                   /\ UNCHANGED << call, trace >>
    /\ UNCHANGED << line, config, file, cmd, args, loc, out, snap, why,
                    unsaved >>

(***************************************************************************)
(* Another program rewrites the configuration file.  Every handler touches *)
(* the file in at most one step, so an edit during a handler has the       *)
(* effect of one just before or just after it.                             *)
(***************************************************************************)
ExternalEdit(f) ==
    /\ LoopIdle
    /\ f \in EditFiles
    /\ f # file
    /\ file' = f
    /\ UNCHANGED << line, config, pc, cmd, args, res, loc, call, trace, out,
                    snap, why, unsaved >>

Next ==
    \/ \E s \in Sessions : Accept(s)
    \/ \E s \in Sessions : Prompt(s)
    \/ \E s \in Sessions : EndOfInput(s)
    \/ \E s \in Sessions : BreakReceived(s)
    \/ \E s \in Sessions : ReadlineFault(s)
    \/ \E s \in Sessions, l \in Lines : ReadBlank(s, l)
    \/ \E s \in Sessions, l \in Lines : ReadUnknown(s, l)
    \/ \E s \in Sessions, l \in Lines : Dispatch(s, l)
    \/ \E s \in Sessions : Respond(s)
    \/ \E s \in Sessions : ShowHelp(s)
    \/ \E s \in Sessions : ExitSession(s)
    \/ \E s \in Sessions : ListProtocolsCmd(s)
    \/ \E s \in Sessions : ShowConfig(s)
    \/ \E s \in Sessions, o \in LoadOutcomes : ReloadConfig(s, o)
    \/ \E s \in Sessions : ShowLogs(s)
    \/ \E s \in Sessions : StartTool(s)
    \/ \E s \in Sessions : ToggleUsage(s)
    \/ \E s \in Sessions : ToggleFind(s)
    \/ \E s \in Sessions, o \in SaveOutcomes : ToggleSave(s, o)
    \/ \E s \in Sessions, o \in RunOutcomes : ToolReturn(s, o)
    \/ \E f \in EditFiles : ExternalEdit(f)

Spec == Init /\ [][Next]_vars

(***************************************************************************)
(* What the properties below speak of.                                     *)
(***************************************************************************)
\* the words of the line the session is serving
Words(s) == Split(Strip(line[s]))

\* the session is serving `enable`/`disable` with a protocol argument
Toggling(s) ==
    /\ line[s] # ""
    /\ Words(s) # << >>
    /\ Lower(Words(s)[1]) \in {"enable", "disable"}
    /\ Len(Words(s)) > 1

ProtocolArg(s) == Words(s)[2]
ClassArg(s) == IF Len(Words(s)) > 2 THEN Words(s)[3] ELSE "primary"

\* the clocks of the class the command names, when the line was taken up
\* and now
ClocksBefore(s) == ClockList(snap.cfg, ClassArg(s) \o "_clocks")
ClocksNow(s) == ClockList(config, ClassArg(s) \o "_clocks")

\* the entry the command is about: the first of its class with the
\* protocol's name, 0 if there is none
Target(s) == FindFirst(ClocksBefore(s), ProtocolArg(s))

Disabled(clock) == "disable" \in DOMAIN clock /\ clock["disable"]

\* the handler of the session has returned; its response is not yet written
Returned(s) == pc[s] = "respond"

Ran(s, argv) == \E k \in 1..Len(trace[s]) : trace[s][k] = "run " \o argv

RestartCalls(s) ==
    Cardinality({k \in 1..Len(trace[s]) :
                    trace[s][k] = "run systemctl restart timebeat"})

\* the state word `protocols` prints for the target
ShownAs(s, word) ==
    /\ Target(s) \in 1..Len(ClocksNow(s))
    /\ Contains(": " \o word \o " (", ProtocolLine(ClocksNow(s)[Target(s)]))
    /\ Contains(ProtocolLine(ClocksNow(s)[Target(s)]), ListProtocols(config))

(***************************************************************************)
(* C1: when a session has written the farewell in answer to exit or quit   *)
(* (in any letter case), its loop ends: it writes no further prompt and    *)
(* reads no further line.                                                  *)
(***************************************************************************)
C1_ExitEndsLoop ==
    [][\A s \in Sessions :
          (/\ pc[s] = "top"
           /\ Lower(Strip(line[s])) \in {"exit", "quit"}
           /\ out[s] = << "Goodbye!\n\n" >>)
          => pc'[s] \in {"top", "closed"}]_vars

(***************************************************************************)
(* C2: for every protocol X of the class the command names, whatever its   *)
(* flag was, once `enable X` has completed `protocols` shows X as ENABLED, *)
(* and once `disable X` has completed it shows X as DISABLED.              *)
(***************************************************************************)
C2_EnableThenEnabled ==
    \A s \in Sessions :
        (/\ Returned(s) /\ Toggling(s)
         /\ Truthy(snap.cfg) /\ Target(s) # 0)
        => ShownAs(s, IF Lower(Words(s)[1]) = "enable"
                      THEN "ENABLED" ELSE "DISABLED")

(***************************************************************************)
(* C3: when no entry of the class matches the protocol argument (the       *)
(* arguments may contain the words ENABLED or DISABLED), enable and        *)
(* disable answer with the not-found message, leave the document in memory *)
(* and the file as they were and do not call restartService.               *)
(***************************************************************************)
C3_NotFoundNoEffect ==
    \A s \in Sessions :
        (/\ Returned(s) /\ Toggling(s)
         /\ Truthy(snap.cfg) /\ Target(s) = 0)
        => /\ res[s] = "Protocol " \o ProtocolArg(s) \o " not found in "
                           \o ClassArg(s) \o " clocks"
           /\ config = snap.cfg
           /\ file = snap.file
           /\ RestartCalls(s) = 0

(***************************************************************************)
(* C4: when `enable P` finds its entry disabled, or `disable P` finds it   *)
(* enabled, and the save succeeds, the handler has flipped the flag, saved *)
(* the document and then called restartService, once and after the save;   *)
(* it answers with the toggle text "Protocol <P uppercased> ENABLED in     *)
(* <class> clocks" (DISABLED for disable), a newline and the restart       *)
(* result; `protocols` then shows the entry in the new state.              *)
(***************************************************************************)
C4_Case(s) ==
    /\ Returned(s) /\ Toggling(s)
    /\ Truthy(snap.cfg) /\ Target(s) # 0
    /\ Disabled(ClocksBefore(s)[Target(s)]) = (Lower(Words(s)[1]) = "enable")
    /\ \E k \in 1..Len(trace[s]) : trace[s][k] = "save ok"

C4_RestartResults ==
    {"Timebeat service restarted successfully",
     "Failed to restart timebeat: [stderr of systemctl restart timebeat]",
     "Error restarting service: [Errno 2] No such file or directory: "
        \o "systemctl restart timebeat"}

C4_ToggleThenRestart ==
    \A s \in Sessions :
        C4_Case(s) =>
            LET word == IF Lower(Words(s)[1]) = "enable"
                        THEN "ENABLED" ELSE "DISABLED"
            IN /\ trace[s] = << "flip", "save ok",
                                "run systemctl restart timebeat" >>
               /\ \E r \in C4_RestartResults :
                     res[s] = "Protocol " \o Upper(ProtocolArg(s)) \o " "
                                 \o word \o " in " \o ClassArg(s)
                                 \o " clocks" \o "\n" \o r
               /\ Disabled(ClocksNow(s)[Target(s)]) = (word = "DISABLED")
               /\ \A k \in 1..Len(ClocksNow(s)) :
                     k # Target(s) => ClocksNow(s)[k] = ClocksBefore(s)[k]
               /\ file = Yaml(config)
               /\ ShownAs(s, word)

C4_Witness ==
    \E s \in Sessions :
        /\ C4_Case(s)
        /\ line[s] = "enable ptp"
        /\ res[s] = "Protocol PTP ENABLED in primary clocks\n"
                       \o "Timebeat service restarted successfully"

(***************************************************************************)
(* C5: two sessions toggling the same entry never interleave their         *)
(* read-modify-write: at most one session is ever between its read of a    *)
(* line and its next prompt, the flag a toggle read is still the flag in   *)
(* memory when it writes, and what a successful toggle has saved is the    *)
(* document as it stood when the command was taken up (the other session's *)
(* flip included) with the one flag flipped.                               *)
(***************************************************************************)
C5_Running(s) == pc[s] \notin {"new", "read", "closed"}

C5_OneFlip(s) ==
    /\ Target(s) # 0
    /\ Len(ClocksNow(s)) = Len(ClocksBefore(s))
    /\ \A k \in 1..Len(ClocksNow(s)) :
          IF k = Target(s)
          THEN /\ Disabled(ClocksNow(s)[k]) = ~Disabled(ClocksBefore(s)[k])
               /\ \A f \in (DOMAIN ClocksBefore(s)[k]) \ {"disable"} :
                     ClocksNow(s)[k][f] = ClocksBefore(s)[k][f]
          ELSE ClocksNow(s)[k] = ClocksBefore(s)[k]
    /\ \A key \in DOMAIN ClockSync(snap.cfg) :
          key # ClassArg(s) \o "_clocks"
             => ClockList(config, key) = ClockList(snap.cfg, key)

C7_Case(s) ==
    /\ pc[s] \notin {"new", "read"}
    /\ line[s] # "" /\ Words(s) # << >>
    /\ Lower(Words(s)[1]) \notin CommandNames

C7_UnknownCommand ==
    \A s \in Sessions :
        C7_Case(s) =>
            /\ pc[s] = "top"
            /\ out[s] = << "Unknown command: " \o Lower(Words(s)[1]) \o "\n",
                           "Type 'help' for available commands\n\n" >>
            /\ res[s] = "" /\ trace[s] = << >> /\ call[s] = ""
            /\ config = snap.cfg /\ file = snap.file
            /\ ENABLED Prompt(s)

C7_Witness ==
    \E s \in Sessions :
        /\ C7_Case(s)
        /\ line[s] = "Bogus arg"
        /\ out[s][1] = "Unknown command: bogus\n"

(***************************************************************************)
(* C8: a fault raised by a command handler does not end the session: the   *)
(* one thing written for it is `Error executing command: <fault>`, and the *)
(* session is back at the top of its loop.                                 *)
(***************************************************************************)
C8_FaultBecomesResponse ==
    [][\A s \in Sessions :
          (pc[s] = "raised" /\ pc'[s] # "raised")
          => /\ pc'[s] = "top"
             /\ out'[s] = << "Error executing command: " \o res[s] \o "\n\n" >>
             /\ config' = config /\ file' = file]_vars

C8_Witness ==
    \E s \in Sessions :
        /\ pc[s] = "top"
        /\ out[s] = << "Error executing command: invalid literal for int() "
                          \o "with base 10: '²'\n\n" >>

(***************************************************************************)
(* C9: when the save of a toggle fails, the command answers with the       *)
(* save-failure message alone, calls no restart, leaves the flag flipped   *)
(* in memory and leaves the file exactly as it was before the command.     *)
(***************************************************************************)
C9_FailedSaveKeepsFile ==
    \A s \in Sessions :
        (/\ Returned(s) /\ Toggling(s)
         /\ \E k \in 1..Len(trace[s]) :
               trace[s][k] \in {"save open_error", "save write_error"})
        => /\ res[s] = "Failed to save configuration"
           /\ RestartCalls(s) = 0
           /\ C5_OneFlip(s)
           /\ file = snap.file

(***************************************************************************)
(* C10: when a reload has succeeded, the document in memory is the         *)
(* document in the file, and `config` and `protocols` answer with the      *)
(* document in memory, so that after an edit of the file by another        *)
(* program and a reload they show the file's new contents.                 *)
(***************************************************************************)
C10_ReloadReflectsFile ==
    \A s \in Sessions :
        (Returned(s) /\ line[s] # "" /\ Words(s) # << >>) =>
            /\ (Lower(Words(s)[1]) = "reload"
                   /\ res[s] = "Configuration reloaded successfully")
               => (file.kind \in {"yaml", "empty"} /\ config = file.doc)
            /\ Lower(Words(s)[1]) = "config"
               => res[s] = (IF Truthy(config) THEN DumpText(config)
                            ELSE "Configuration not loaded")
            /\ Lower(Words(s)[1]) = "protocols"
               => res[s] = ListProtocols(config)

\* the reload has replaced the document by the one another program wrote
C10_Witness ==
    \E s \in Sessions :
        /\ Returned(s) /\ line[s] = "reload"
        /\ res[s] = "Configuration reloaded successfully"
        /\ snap.cfg = DocA /\ config = DocB /\ file = Yaml(DocB)

(***************************************************************************)
(* C11: `reload` touches nothing but the document in memory: when its      *)
(* handler has returned, the file is as it was when the line was taken up, *)
(* the only thing done is the load (no external tool was run, no save was  *)
(* made); a file that cannot be parsed is answered with the failure        *)
(* message, and whenever the failure message is the answer, the document   *)
(* in memory is exactly what it was before (loaded or not).                *)
(***************************************************************************)
C11_ReloadTouchesOnlyMemory ==
    \A s \in Sessions :
        (/\ Returned(s) /\ line[s] # "" /\ Words(s) # << >>
         /\ Lower(Words(s)[1]) = "reload")
        => /\ file = snap.file
           /\ trace[s] = << "load" >>
           /\ call[s] = ""
           /\ res[s] \in {"Configuration reloaded successfully",
                          "Failed to reload configuration"}
           /\ file.kind = "garbage"
              => res[s] = "Failed to reload configuration"
           /\ res[s] = "Failed to reload configuration"
              => config = snap.cfg

\* a reload has failed on an unparsable file while a document was loaded
C11_Witness ==
    \E s \in Sessions :
        /\ Returned(s) /\ line[s] = "reload"
        /\ res[s] = "Failed to reload configuration"
        /\ file = Garbage
        /\ snap.cfg = DocA /\ config = DocA

(***************************************************************************)
(* C12: `logs` asks journalctl for exactly 50 lines when it has no         *)
(* argument, for exactly n lines when its first argument is the decimal    *)
(* numeral of a non-negative integer n, and for 50 lines for every other   *)
(* first argument; a bad argument is never answered with an error.         *)
(***************************************************************************)
C12_Numeral(a) ==
    a # "" /\ \A i \in 1..Len(a) : IndexIn(Chr(a, i), "0123456789") # 0

\* C12: the line count `logs` asks for, and no error for a bad argument
C12_LogsLineCount ==
    \A s \in Sessions :
        (/\ pc[s] \in {"tool", "respond", "raised"}
         /\ line[s] # "" /\ Words(s) # << >>
         /\ Lower(Words(s)[1]) = "logs")
        => /\ pc[s] # "raised"
           /\ trace[s] =
                << "run journalctl -u timebeat -n "
                     \o (IF Len(Words(s)) > 1 /\ C12_Numeral(Words(s)[2])
                         THEN ToStr(ToInt(Words(s)[2]))
                         ELSE "50") >>

(***************************************************************************)
(* C13: `enable` or `disable` without a protocol argument answers with     *)
(* the usage message and touches nothing: the document in memory and the   *)
(* file are what they were when the line was taken up, no save is made     *)
(* and no external tool (so no restart) is run.                            *)
(***************************************************************************)
C13_UsageTouchesNothing ==
    \A s \in Sessions :
        (/\ Returned(s) /\ line[s] # "" /\ Len(Words(s)) = 1
         /\ Lower(Words(s)[1]) \in {"enable", "disable"})
        => /\ res[s] = "Usage: " \o Lower(Words(s)[1]) \o " <protocol>"
           /\ config = snap.cfg
           /\ file = snap.file
           /\ trace[s] = << >>
           /\ call[s] = ""

\* the usage message is the answer while a document with clocks is loaded
C13_Witness ==
    \E s \in Sessions :
        /\ Returned(s) /\ line[s] = "enable"
        /\ res[s] = "Usage: enable <protocol>"
        /\ config = DocA /\ file = Yaml(DocA)

(***************************************************************************)
(* C14: while one session waits for an external tool to return, the other  *)
(* sessions are not blocked: a session whose client has sent a line can    *)
(* have that line read and served before the tool returns.                 *)
(***************************************************************************)
C14_OthersNotBlocked ==
    \A s, t \in Sessions :
        (s # t /\ pc[s] = "tool" /\ pc[t] = "read")
        => ENABLED (\E l \in Lines :
                       \/ Dispatch(t, l)
                       \/ ReadUnknown(t, l)
                       \/ ReadBlank(t, l))

(***************************************************************************)
(* C15: within one session the commands are served in order, one at a      *)
(* time.  A line is read only while the session waits at its prompt with   *)
(* no command in progress; the prompt is written only from the top of the  *)
(* loop, after the welcome, after a blank line or after the response to    *)
(* the line before; a response is written only when nothing was written    *)
(* since the prompt, so every non-blank line gets exactly one response; a  *)
(* blank line writes nothing, calls no handler, changes nothing and leads  *)
(* back to the top of the loop.                                            *)
(***************************************************************************)
C15_OneAtATime ==
    [][\A s \in Sessions :
          /\ (line'[s] # line[s] /\ line'[s] # "")
             => /\ pc[s] = "read" /\ line[s] = ""
                /\ out[s] = << "timebeat> " >>
                /\ cmd[s] = "" /\ res[s] = "" /\ trace[s] = << >>
          /\ (line'[s] # line[s] /\ line'[s] # "" /\ Strip(line'[s]) = "")
             => /\ pc'[s] = "top" /\ out'[s] = << >>
                /\ cmd'[s] = "" /\ res'[s] = "" /\ trace'[s] = << >>
                /\ config' = config /\ file' = file
          /\ (pc'[s] = "read" /\ pc[s] # "read")
             => /\ pc[s] = "top" /\ out'[s] = << "timebeat> " >>
                /\ \/ line[s] = ""
                   \/ Strip(line[s]) = "" /\ out[s] = << >>
                   \/ Strip(line[s]) # "" /\ out[s] # << >>
                                          /\ out[s] # << "timebeat> " >>
          /\ (out'[s] # out[s] /\ out'[s] # << >>
                /\ out'[s] # << "timebeat> " >> /\ pc[s] # "new")
             => /\ \/ pc[s] = "read" /\ out[s] = << "timebeat> " >>
                   \/ pc[s] \in {"respond", "raised"} /\ out[s] = << >>
                /\ Strip(line'[s]) # ""
                /\ pc'[s] = "top"
      ]_vars

\* a blank line has been read: nothing is written, no handler is called
C15_Witness ==
    \E s \in Sessions :
        /\ pc[s] = "top" /\ line[s] = "   "
        /\ out[s] = << >> /\ cmd[s] = ""

(***************************************************************************)
(* C16: on both ways out the connection is released.  A session that has   *)
(* written the farewell for exit or quit does not go back to its prompt:   *)
(* its next step closes its process handle.  A session whose input ends    *)
(* closes its handle in that step and writes no farewell.  A handle once   *)
(* closed stays closed: it is closed exactly once and the session never    *)
(* re-enters the loop.                                                     *)
(***************************************************************************)
C16_Released ==
    [][\A s \in Sessions :
          /\ (/\ pc[s] = "top"
              /\ Lower(Strip(line[s])) \in {"exit", "quit"}
              /\ out[s] # << >>)
             => (pc'[s] = "closed" \/ (pc'[s] = "top" /\ out'[s] = out[s]))
          /\ (pc[s] # "closed" /\ pc'[s] = "closed" /\ why'[s] = "eof")
             => (pc[s] = "read" /\ out'[s] = << >>)
          /\ pc[s] = "closed"
             => (pc'[s] = "closed" /\ why'[s] = why[s] /\ out'[s] = << >>)
      ]_vars

(***************************************************************************)
(* C17: a toggle that finds its protocol changes the flag of exactly one   *)
(* entry, the first of the named class whose protocol matches without      *)
(* regard to letter case.  In memory that entry's flag is inverted and     *)
(* every other entry of either class is as before; on disk every entry     *)
(* other than that one has the flag it had in the file before the command. *)
(***************************************************************************)
C17_Classes == {"primary_clocks", "secondary_clocks"}

C17_OnDisk(f, key) == IF f.kind = "yaml" THEN ClockList(f.doc, key) ELSE << >>

C17_IsTarget(s, key, k) ==
    key = ClassArg(s) \o "_clocks" /\ k = Target(s)

C17_FirstMatch(s) ==
    /\ Target(s) \in 1..Len(ClocksBefore(s))
    /\ Lower(ClocksBefore(s)[Target(s)]["protocol"]) = Lower(ProtocolArg(s))
    /\ \A k \in 1..(Target(s) - 1) :
          Lower(Get(ClocksBefore(s)[k], "protocol", ""))
             # Lower(ProtocolArg(s))

C17_InMemory(s) ==
    \A key \in C17_Classes :
        /\ Len(ClockList(config, key)) = Len(ClockList(snap.cfg, key))
        /\ \A k \in 1..Len(ClockList(snap.cfg, key)) :
              Disabled(ClockList(config, key)[k])
                 = IF C17_IsTarget(s, key, k)
                   THEN ~Disabled(ClockList(snap.cfg, key)[k])
                   ELSE Disabled(ClockList(snap.cfg, key)[k])

C17_OnDiskOthersKept(s) ==
    \A key \in C17_Classes :
        \A k \in 1..Len(C17_OnDisk(snap.file, key)) :
            ~C17_IsTarget(s, key, k)
               => /\ k \in 1..Len(C17_OnDisk(file, key))
                  /\ Disabled(C17_OnDisk(file, key)[k])
                        = Disabled(C17_OnDisk(snap.file, key)[k])

\* C17: the toggle has flipped the first match and nothing else, in memory
\* and on disk
C17_ExactlyOneFlag ==
    \A s \in Sessions :
        (/\ pc[s] \in {"tool", "respond"} /\ Toggling(s)
         /\ \E k \in 1..Len(trace[s]) : trace[s][k] = "flip")
        => /\ C17_FirstMatch(s)
           /\ C17_InMemory(s)
           /\ C17_OnDiskOthersKept(s)

(***************************************************************************)
(* C18: `clock` returns the outputs of both tools whatever becomes of      *)
(* either: when its handler has returned, both `chrony sources` and        *)
(* `timedatectl status` have been invoked, in that order, also when the    *)
(* first failed or could not be invoked; the handler has not raised, and   *)
(* its answer is the two outputs, not one error message in their place.    *)
(***************************************************************************)
C18_BothToolsReported ==
    \A s \in Sessions :
        (/\ pc[s] \in {"respond", "raised"}
         /\ line[s] # "" /\ Words(s) # << >>
         /\ Lower(Words(s)[1]) = "clock")
        => /\ pc[s] = "respond"
           /\ trace[s] = << "run chrony sources", "run timedatectl status" >>
           /\ ~Contains("Error getting clock sync status", res[s])

(***************************************************************************)
(* C19: whenever `reload` answers with its success message, a document is  *)
(* loaded: `config` and `protocols` asked right then would not answer      *)
(* 'Configuration not loaded', and neither would the toggle behind         *)
(* `enable` and `disable`, whatever content of the file the load has       *)
(* accepted.                                                               *)
(***************************************************************************)
C19_ReloadedMeansLoaded ==
    \A s \in Sessions :
        (/\ Returned(s) /\ line[s] # "" /\ Words(s) # << >>
         /\ Lower(Words(s)[1]) = "reload"
         /\ res[s] = "Configuration reloaded successfully")
        => /\ Truthy(config)
           /\ ShowConfigText(config) # "Configuration not loaded"
           /\ ListProtocols(config) # "Configuration not loaded"

(***************************************************************************)
(* C20: a flip whose toggle answered 'Failed to save configuration' never  *)
(* reaches the file through a later command for another entry: in every    *)
(* step in which a toggle saves the document, each entry other than the    *)
(* toggle's target whose flip was answered with the save failure keeps on  *)
(* disk the flag it had there before the step.                             *)
(***************************************************************************)
C20_UnreportedFlipStaysOffDisk ==
    [][\A s \in Sessions :
          (/\ pc[s] = "save" /\ pc'[s] # "save"
           /\ \E k \in 1..Len(trace'[s]) : trace'[s][k] = "save ok")
          => \A e \in unsaved \ {<< loc[s].key, loc[s].i >>} :
                e[2] \in 1..Len(C17_OnDisk(file, e[1]))
                   => /\ e[2] \in 1..Len(C17_OnDisk(file', e[1]))
                      /\ Disabled(C17_OnDisk(file', e[1])[e[2]])
                            = Disabled(C17_OnDisk(file, e[1])[e[2]])
      ]_vars

====
